---- MODULE Spec2Model ----
(***************************************************************************)
(* Model of utils.py: the plotting wrappers plot_time_hist,                *)
(* plot_months_side_by_side, plot_days and the label helper                *)
(* convert_month_to_abbr.                                                  *)
(*                                                                         *)
(* The program's state is pyplot's figure 1, which every renderer draws    *)
(* into: the artists added so far, the y-axis limits, and the axes'        *)
(* formatting.  `last` records the most recent call: its arguments, how it *)
(* ended (returned / raised and the exception), and what the figure held   *)
(* when it started.                                                        *)
(*                                                                         *)
(* Numbers on the x-axis (index labels, bar positions, the argument of     *)
(* convert_month_to_abbr when it is a float) are kept in HALVES: the       *)
(* integer h stands for h/2.  The categorical positions 0.5, 1.5, ... are  *)
(* then 1, 3, ..., an int64 label n is 2n, and a float label may be odd.   *)
(* A y-value is an exact quotient [num, den] (den = 0: NaN).  An index     *)
(* label is Num(h) or Str(s).  A Python None is the empty sequence <<>>,   *)
(* a given value v is <<v>>.                                               *)
(***************************************************************************)
EXTENDS Integers, Sequences, FiniteSets, TLC

VARIABLES artists, ylim, axes, last

vars == <<artists, ylim, axes, last>>

\* ------------------------------------------------------------------ bounds

\* Longest series the caller passes.
MaxLen == 2
\* Most (year, series) pairs in a collection passed to plot_days.
MaxSeries == 3
\* Most (year, series) pairs in a collection passed to plot_months_side_by_side.
MaxYears == 2
\* A further call is explored only on a figure holding at most this many
\* artists (0: the earlier calls were given empty collections, which leave the
\* figure created, formatted and possibly with fixed y-limits, but empty).
MaxCanvas == 0

\* ------------------------------------------------------------------ values

None == <<>>

Some(v) == <<v>>

\* An index label: the number h/2, or the string s.
Num(h) == <<h, "">>

Str(s) == <<0, s>>

IsNum(label) == label[2] = ""

\* A y-value: the exact quotient num/den.
Rat(v) == [num |-> v, den |-> 1]

Rats(values) == [i \in DOMAIN values |-> Rat(values[i])]

\* The sequences without repetition (index labels are unique).
Distinct(s) == \A i, j \in DOMAIN s : i # j => s[i] # s[j]

RECURSIVE SumSeq(_)
SumSeq(s) == IF s = <<>> THEN 0 ELSE Head(s) + SumSeq(Tail(s))

\* Python's int() of a float, numpy's astype('int'): truncation toward zero.
\* h is in halves; the result is a whole number (not in halves).
IntTrunc(h) == IF h >= 0 THEN h \div 2 ELSE -((-h) \div 2)

\* ------------------------------------------------------------------ convert_month_to_abbr

\* calendar.month_abbr's backing list: 13 entries, entry 0 is the empty string.
month_abbr == <<"", "Jan", "Feb", "Mar", "Apr", "May", "Jun",
                "Jul", "Aug", "Sep", "Oct", "Nov", "Dec">>

\* A Python list subscript: 0-based, a negative index counts from the end,
\* anything else raises IndexError.
ListGetItemShifted(list, i) ==
    IF i >= 1 /\ i <= Len(list)
    THEN [raised |-> FALSE, error |-> "", value |-> list[i]]
    ELSE [raised |-> TRUE, error |-> "IndexError", value |-> ""]

ListGetItem(list, i) ==
    IF i >= 0 /\ i < Len(list)
    THEN [raised |-> FALSE, error |-> "", value |-> list[i + 1]]
    ELSE IF i < 0 /\ i >= -Len(list)
    THEN [raised |-> FALSE, error |-> "", value |-> list[i + Len(list) + 1]]
    ELSE [raised |-> TRUE, error |-> "IndexError", value |-> ""]

\* return calendar.month_abbr[int(month)]; month in halves.
convert_month_to_abbr(month) == ListGetItem(month_abbr, IntTrunc(month))

\* ------------------------------------------------------------------ pandas / numpy

\* A pandas Series: the dtype of its index, the index labels and the values,
\* position by position.
Series(dtype, index, values) == [dtype |-> dtype, index |-> index, values |-> values]

\* np.issubdtype(index, np.number): decided by the dtype of the index, not by
\* the labels in it (an object index may hold numbers).
IsNumber(dtype) == dtype \in {"int64", "float64"}

\* Insert the entry (label, value) into the entries sorted by label.
RECURSIVE InsertSorted(_, _)
InsertSorted(e, sorted) ==
    IF sorted = <<>> THEN <<e>>
    ELSE IF e[1][1] <= Head(sorted)[1][1] THEN <<e>> \o sorted
    ELSE <<Head(sorted)>> \o InsertSorted(e, Tail(sorted))

RECURSIVE SortEntries(_)
SortEntries(es) ==
    IF es = <<>> THEN <<>> ELSE InsertSorted(Head(es), SortEntries(Tail(es)))

Entries(s) == [i \in DOMAIN s.index |-> <<s.index[i], s.values[i]>>]

\* value_counts.sort_index(): the entries by ascending label.
sort_index_unsorted(s) == s

sort_index(s) ==
    LET es == SortEntries(Entries(s))
    IN  Series(s.dtype, [i \in DOMAIN es |-> es[i][1]], [i \in DOMAIN es |-> es[i][2]])

\* index.astype('int'): each label truncated to a whole number (in halves again).
astype_int(index) == [i \in DOMAIN index |-> Num(2 * IntTrunc(index[i][1]))]

\* The numbers a numeric index is plotted at.
as_numbers(index) == [i \in DOMAIN index |-> index[i][1]]

\* value_counts.mean(): the exact quotient sum/len; den = 0 is NaN (empty series).
mean_off_by_one(values) == [num |-> SumSeq(values), den |-> Len(values) + 1]

mean(values) == [num |-> SumSeq(values), den |-> Len(values)]

\* ------------------------------------------------------------------ pyplot

\* An artist on the figure.  kind "bar" is the container of one rectangle per
\* position; kind "line" is a Line2D.  x is in halves, y are exact quotients.
\* A trend line has fit # None and its y-data is poly1d(fit)(x), which is not
\* computed: y is left empty.  label is the format string and its arguments.
Artist(kind, x, y, fit, fmt, color, label, width, edgecolor) ==
    [kind |-> kind, x |-> x, y |-> y, fit |-> fit, fmt |-> fmt, color |-> color,
     label |-> label, width |-> width, edgecolor |-> edgecolor]

\* plt.legend(): one entry per artist that has a label, in drawing order.
RECURSIVE Legend(_)
Legend(as) ==
    IF as = <<>> THEN <<>>
    ELSE (IF Head(as).label = None THEN <<>> ELSE <<Head(as).label>>) \o Legend(Tail(as))

\* The axes before anything was drawn.
NoAxes ==
    [figure |-> None, title |-> None, xlabel |-> None, ylabel |-> None,
     xticks |-> None, xtick_rotation |-> None, legend |-> None]

\* plt.figure(1, figsize=figsize): creates figure 1 unless it exists.
figure(ax, figsize) == IF ax.figure = None THEN [ax EXCEPT !.figure = Some(figsize)] ELSE ax

\* plt.title(...); if xlabel is not None: plt.xlabel(...); same for ylabel.
set_labels(ax, title, xlabel, ylabel) ==
    [ax EXCEPT !.title = Some(title),
               !.xlabel = IF xlabel # None THEN xlabel ELSE @,
               !.ylabel = IF ylabel # None THEN ylabel ELSE @]

\* What `last` holds for the arguments a call does not have.
NoSeries == Series("object", <<>>, <<>>)

NoKwargs == [width |-> None, edgecolor |-> None]

NoOptions == [fit_trendline |-> FALSE, deg |-> 0, override_fit_color |-> None]

\* The record of a call: the function, how it ended, its arguments, its return
\* value, and the number of artists and the y-limits it found.
Call(op, raised, error, month, value_counts, years, kwargs, opts, value) ==
    [op |-> op, outcome |-> IF raised THEN "raised" ELSE "returned", error |-> error,
     month |-> month, value_counts |-> value_counts, years |-> years,
     kwargs |-> kwargs, opts |-> opts, value |-> value,
     before |-> Len(artists), ylim_before |-> ylim]

\* ------------------------------------------------------------------ plot_time_hist

\* lines 29-32: the defaults the caller did not override.
hist_kwargs(kwargs) ==
    [width |-> IF kwargs.width = None THEN Some(1) ELSE kwargs.width,
     edgecolor |-> IF kwargs.edgecolor = None THEN Some("black") ELSE kwargs.edgecolor]

\* lines 35-43: where the bars go, how high they are, and the tick labels.
hist_layout_no_offset(value_counts, numeric) ==
    IF numeric
    THEN LET reordered == sort_index(value_counts)
             bar_x == astype_int(reordered.index)
         IN  [bar_x |-> as_numbers(bar_x), bar_vals |-> reordered.values,
              x_tick_labels |-> bar_x]
    ELSE [bar_x |-> [i \in 1..Len(value_counts.index) |-> 2 * (i - 1)],
          bar_vals |-> value_counts.values,
          x_tick_labels |-> value_counts.index]

hist_layout(value_counts, numeric) ==
    IF numeric
    THEN LET reordered == sort_index(value_counts)
             bar_x == astype_int(reordered.index)
         IN  [bar_x |-> as_numbers(bar_x), bar_vals |-> reordered.values,
              x_tick_labels |-> bar_x]
    ELSE [bar_x |-> [i \in 1..Len(value_counts.index) |-> 1 + 2 * (i - 1)],
          bar_vals |-> value_counts.values,
          x_tick_labels |-> value_counts.index]

\* lines 45-50: the bars and the dashed mean line.
hist_artists(value_counts, lay, kw) ==
    << Artist("bar", lay.bar_x, Rats(lay.bar_vals), None, "", None, None,
              kw.width, kw.edgecolor),
       Artist("line", lay.bar_x,
              [i \in 1..Len(value_counts.index) |-> mean(value_counts.values)],
              None, "--", Some("black"), Some(<<"Mean">>), None, None) >>

plot_time_hist(value_counts, title, xlabel, ylabel, kwargs) ==
    LET kw == hist_kwargs(kwargs)
        lay == hist_layout(value_counts, IsNumber(value_counts.dtype))
        drawn == artists \o hist_artists(value_counts, lay, kw)
    IN  /\ artists' = drawn
        /\ ylim' = ylim
        /\ axes' = [set_labels(figure(axes, <<8, 8>>), title, xlabel, ylabel) EXCEPT
                       !.xticks = Some([locs |-> lay.bar_x, labels |-> lay.x_tick_labels]),
                       !.xtick_rotation = Some(45),
                       !.legend = Some(Legend(drawn))]
        /\ last' = Call("plot_time_hist", FALSE, "", 0, value_counts, <<>>, kwargs,
                        NoOptions, "")

\* ------------------------------------------------------------------ plot_months_side_by_side

\* lines 78-79: one '-o' line per (year, series), against the series' own labels.
RECURSIVE month_lines(_)
month_lines(years) ==
    IF years = <<>> THEN <<>>
    ELSE LET year == Head(years)[1]
             accident_series == Head(years)[2]
         IN  << Artist("line", as_numbers(accident_series.index),
                       Rats(accident_series.values), None,
                       "-o", None, Some(<<"{}", year>>), None, None) >>
             \o month_lines(Tail(years))

\* line 89: plt.ylim(bottom=500, top=2000).
set_ylim_swapped(cur, bottom, top) == <<top, bottom>>

set_ylim(cur, bottom, top) == <<bottom, top>>

\* line 92: the tick labels, [convert_month_to_abbr(month) for month in range(1, 13, 1)].
month_ticks == [m \in 1..12 |-> convert_month_to_abbr(2 * m)]

plot_months_side_by_side(years, title, xlabel, ylabel) ==
    LET drawn == artists \o month_lines(years)
        labelled == set_labels(figure(axes, <<8, 8>>), title, xlabel, ylabel)
        failed == {m \in 1..12 : month_ticks[m].raised}
    IN  /\ artists' = drawn
        /\ ylim' = set_ylim(ylim, 500, 2000)
        /\ axes' = IF failed # {} THEN labelled
                   ELSE [labelled EXCEPT
                           !.xticks = Some([locs |-> [m \in 1..12 |-> 2 * m],
                                            labels |-> [m \in 1..12 |-> Str(month_ticks[m].value)]]),
                           !.xtick_rotation = Some(45),
                           !.legend = Some(Legend(drawn))]
        /\ last' = Call("plot_months_side_by_side", failed # {},
                        IF failed # {} THEN "IndexError" ELSE "",
                        0, NoSeries, years, NoKwargs, NoOptions, "")

\* ------------------------------------------------------------------ plot_days

\* line 102: plt.rcParams['axes.prop_cycle'].by_key()['color'], the configured
\* colour list.  matplotlib's default list has ten colours; the figure here is
\* configured with the first two of them.
prop_cycle_colors == <<"#1f77b4", "#ff7f0e">>

\* next(color_cycle_iter) on a list iterator that has handed out `used` items.
next_color(colors, used) ==
    IF used < Len(colors)
    THEN [raised |-> FALSE, error |-> "", value |-> colors[used + 1]]
    ELSE [raised |-> TRUE, error |-> "StopIteration", value |-> ""]

\* np.array(range(len(accident_series))), in halves.
x_coords(n) == [i \in 1..n |-> 2 * (i - 1)]

\* np.polyfit(x_coords, values, deg) for x_coords = 0..n-1.  An empty x raises
\* TypeError.  With n = 1 and deg >= 1 every column of the scaled Vandermonde
\* matrix but the last is 0/0 = NaN (a RuntimeWarning); LAPACK then either
\* fails on the NaNs (LinAlgError) or hands back NaN coefficients, depending
\* on the build: nan_tolerated is that choice.  Otherwise the least-squares
\* coefficients come back, with a RankWarning (a warning, not an exception)
\* when n <= deg.  The coefficients are kept as the term "the fit of these
\* values with this degree".
polyfit(n, values, deg, nan_tolerated) ==
    IF deg < 0 THEN [raised |-> TRUE, error |-> "ValueError", warning |-> "", coef |-> None]
    ELSE IF n = 0 THEN [raised |-> TRUE, error |-> "TypeError", warning |-> "", coef |-> None]
    ELSE IF n = 1 /\ deg >= 1
    THEN IF nan_tolerated
         THEN [raised |-> FALSE, error |-> "", warning |-> "RuntimeWarning",
               coef |-> Some([fit_of |-> values, deg |-> deg, nan |-> TRUE])]
         ELSE [raised |-> TRUE, error |-> "LinAlgError", warning |-> "RuntimeWarning",
               coef |-> None]
    ELSE [raised |-> FALSE, error |-> "",
          warning |-> IF n <= deg THEN "RankWarning" ELSE "",
          coef |-> Some([fit_of |-> values, deg |-> deg, nan |-> FALSE])]

\* lines 103-122, from the (k+1)-th pair on: acc is what the figure holds,
\* used the number of colours taken from the iterator.
RECURSIVE days_loop(_, _, _, _, _)
days_loop(years, acc, used, opts, nan_tolerated) ==
    IF years = <<>> THEN [artists |-> acc, raised |-> FALSE, error |-> ""]
    ELSE
    LET year == Head(years)[1]
        accident_series == Head(years)[2]
        year_color == next_color(prop_cycle_colors, used)
        n == Len(accident_series.values)
        raw == Artist("line", x_coords(n), Rats(accident_series.values), None, "",
                      Some(year_color.value), Some(<<"{}", year>>), None, None)
        trendline == polyfit(n, accident_series.values, opts.deg, nan_tolerated)
        fit_color == IF opts.override_fit_color # None
                     THEN opts.override_fit_color ELSE Some(year_color.value)
        trend == Artist("line", x_coords(n), <<>>, trendline.coef, "", fit_color,
                        Some(<<"Least Squares fit with degree {}, year {}", opts.deg, year>>),
                        Some(2), None)
    IN  IF year_color.raised
        THEN [artists |-> acc, raised |-> TRUE, error |-> year_color.error]
        ELSE IF ~opts.fit_trendline
        THEN days_loop(Tail(years), acc \o <<raw>>, used + 1, opts, nan_tolerated)
        ELSE IF trendline.raised
        THEN [artists |-> acc \o <<raw>>, raised |-> TRUE, error |-> trendline.error]
        ELSE days_loop(Tail(years), acc \o <<raw, trend>>, used + 1, opts, nan_tolerated)

plot_days(years, title, xlabel, ylabel, opts, nan_tolerated) ==
    LET fig == [figure(axes, <<8, 8>>) EXCEPT !.xtick_rotation = Some(45)]
        loop == days_loop(years, artists, 0, opts, nan_tolerated)
    IN  /\ artists' = loop.artists
        /\ ylim' = ylim
        /\ axes' = IF loop.raised THEN fig
                   ELSE [set_labels(fig, title, xlabel, ylabel) EXCEPT
                           !.legend = Some(Legend(loop.artists))]
        /\ last' = Call("plot_days", loop.raised, loop.error,
                        0, NoSeries, years, NoKwargs, opts, "")

\* ------------------------------------------------------------------ inputs

\* The value_counts passed to plot_time_hist: an int64 index over the labels
\* 1, 2, 3, a float64 index over -1.5 and 1.5, an object index over two
\* strings and the number 1, in every order, with counts 5 and 7.
IntLabels == {Num(2), Num(4), Num(6)}

FloatLabels == {Num(-3), Num(3)}

ObjectLabels == {Str("a"), Str("b"), Num(2)}

Counts == {5, 7}

SeriesOver(dtype, labels, values, n) ==
    { Series(dtype, idx, vals) :
        <<idx, vals>> \in UNION { {ix \in [1..k -> labels] : Distinct(ix)} \X [1..k -> values]
                                  : k \in 0..n } }

HistInputs ==
    SeriesOver("int64", IntLabels, Counts, MaxLen)
        \cup SeriesOver("float64", FloatLabels, Counts, MaxLen)
        \cup SeriesOver("object", ObjectLabels, Counts, MaxLen)

\* **kwargs of plot_time_hist: nothing, or a width.
HistKwargs == {NoKwargs, [width |-> Some(2), edgecolor |-> None]}

\* Accident counts per month: below 500 and above 2000.
Accidents == {400, 2500}

\* A year's series: the first n months, every month with the same count.
MonthSeries ==
    { Series("int64", [i \in 1..n |-> Num(2 * i)], [i \in 1..n |-> v]) :
        n \in 0..MaxLen, v \in Accidents }

\* A day series of length n: the linear values 0, 2, 4, ...
DaySeries ==
    { Series("int64", [i \in 1..n |-> Num(2 * (i - 1))], [i \in 1..n |-> 2 * (i - 1)]) :
        n \in 0..MaxLen }

\* The collections of up to n (year, series) pairs, the years 2015, 2016, ...
Collections(series, n) ==
    UNION { { [i \in 1..k |-> <<2014 + i, f[i]>>] : f \in [1..k -> series] } : k \in 0..n }

\* fit_trendline, deg (3 is the default) and override_fit_color.
DayOptions ==
    { [fit_trendline |-> FALSE, deg |-> 3, override_fit_color |-> None],
      [fit_trendline |-> TRUE, deg |-> 1, override_fit_color |-> None],
      [fit_trendline |-> TRUE, deg |-> 3, override_fit_color |-> Some("red")] }

\* Months passed to convert_month_to_abbr, in halves: the integers
\* -MaxMonth..MaxMonth and the floats between them.
MaxMonth == 30

MonthInputs == (-2 * MaxMonth)..(2 * MaxMonth)

\* ------------------------------------------------------------------ actions

Init ==
    /\ artists = <<>>
    /\ ylim = None
    /\ axes = NoAxes
    /\ last = [op |-> "none", outcome |-> "none", error |-> "", month |-> 0,
               value_counts |-> NoSeries, years |-> <<>>, kwargs |-> NoKwargs,
               opts |-> NoOptions, value |-> "", before |-> 0, ylim_before |-> None]

\* The figure holds few enough artists for a further call to be explored.
CanCall == Len(artists) <= MaxCanvas

ConvertMonthToAbbr ==
    \E month \in MonthInputs :
        LET r == convert_month_to_abbr(month)
        IN  /\ last' = Call("convert_month_to_abbr", r.raised, r.error, month,
                            NoSeries, <<>>, NoKwargs, NoOptions, r.value)
            /\ UNCHANGED <<artists, ylim, axes>>

PlotTimeHist ==
    /\ CanCall
    /\ \E value_counts \in HistInputs, kwargs \in HistKwargs :
           plot_time_hist(value_counts, "title", Some("x"), None, kwargs)

PlotMonthsSideBySide ==
    /\ CanCall
    /\ \E years \in Collections(MonthSeries, MaxYears) :
           plot_months_side_by_side(years, "title", Some("x"), None)

PlotDays ==
    /\ CanCall
    /\ \E years \in Collections(DaySeries, MaxSeries), opts \in DayOptions,
          nan_tolerated \in BOOLEAN :
           plot_days(years, "title", Some("x"), None, opts, nan_tolerated)

\* The renderers, called one after another on figure 1, each with a title and
\* an xlabel and without a ylabel.
Next ==
    \/ PlotTimeHist
    \/ PlotMonthsSideBySide
    \/ PlotDays

Spec == Init /\ [][Next]_vars

\* The label helper alone, applied to one month after another.
NextLabel == ConvertMonthToAbbr

SpecLabel == Init /\ [][NextLabel]_vars

\* ------------------------------------------------------------------ properties

\* What the last call added to the figure.
Drawn == SubSeq(artists, last.before + 1, Len(artists))

Returned(op) == last.op = op /\ last.outcome = "returned"

\* The conventional calendar abbreviations, month 1 first.
CalendarAbbr == <<"Jan", "Feb", "Mar", "Apr", "May", "Jun",
                  "Jul", "Aug", "Sep", "Oct", "Nov", "Dec">>

\* The month of the last convert_month_to_abbr call, when it is an integer.
IsIntegerMonth == last.op = "convert_month_to_abbr" /\ last.month % 2 = 0

\* C1: for every integer month m in 1..12, convert_month_to_abbr(m) returns
\* the m-th entry of the conventional abbreviation table, a string of exactly
\* three characters.
C1_MonthAbbreviation ==
    (IsIntegerMonth /\ last.month \div 2 \in 1..12) =>
        /\ last.outcome = "returned"
        /\ last.value = CalendarAbbr[last.month \div 2]
        /\ Len(last.value) = 3

C1_Witness ==
    /\ IsIntegerMonth /\ last.month \div 2 = 12
    /\ last.outcome = "returned" /\ last.value = "Dec"

\* C2 (as claimed): for every integer month outside 1..12,
\* convert_month_to_abbr raises an index error; it returns no string.
C2_OutOfRangeRaises ==
    (IsIntegerMonth /\ last.month \div 2 \notin 1..12) =>
        (last.outcome = "raised" /\ last.error = "IndexError")

\* The call was plot_time_hist on a non-empty series and it returned.
HistDrew == Returned("plot_time_hist") /\ Len(last.value_counts.index) > 0

\* Every label of the series is a number.
AllNumeric(s) == \A i \in DOMAIN s.index : IsNum(s.index[i])

IsIntegerCastOf(x, h) ==
    /\ x % 2 = 0
    /\ h >= 0 => (x <= h /\ h < x + 2)
    /\ h < 0 => (x - 2 < h /\ h <= x)

C4_CategoricalBarsInInputOrder ==
    (HistDrew /\ ~IsNumber(last.value_counts.dtype)) =>
        LET bar == Drawn[1]
            vc == last.value_counts
            n == Len(vc.index)
        IN  /\ bar.kind = "bar"
            /\ Len(bar.x) = n
            /\ \A i \in 1..n : bar.x[i] = 2 * (i - 1) + 1
            /\ bar.y = Rats(vc.values)
            /\ axes.xticks = Some([locs |-> bar.x, labels |-> vc.index])

C4_Witness ==
    /\ HistDrew
    /\ last.value_counts.index = <<Str("b"), Str("a")>>
    /\ last.value_counts.values = <<5, 7>>
    /\ Drawn[1].x = <<1, 3>>
    /\ Drawn[1].y = <<Rat(5), Rat(7)>>

\* C5: in both branches the dashed "Mean" line has one point per bar, at the
\* bar x-positions, and every point's y-value is the sum of all counts of the
\* input divided by their number.
C5_MeanLine ==
    HistDrew =>
        LET bar == Drawn[1]
            line == Drawn[2]
            n == Len(last.value_counts.values)
        IN  /\ Len(Drawn) = 2
            /\ line.kind = "line" /\ line.fmt = "--" /\ line.label = Some(<<"Mean">>)
            /\ line.x = bar.x
            /\ Len(line.y) = Len(bar.x)
            /\ \A i \in DOMAIN line.y :
                  /\ line.y[i].den # 0
                  /\ line.y[i].num * n = SumSeq(last.value_counts.values) * line.y[i].den

C5_Witness ==
    /\ HistDrew
    /\ last.value_counts.dtype = "int64"
    /\ last.value_counts.values = <<5, 7>>
    /\ Drawn[2].y = <<[num |-> 12, den |-> 2], [num |-> 12, den |-> 2]>>

\* C6: after every call of plot_months_side_by_side that returns, the y-axis
\* bounds are exactly (500, 2000), whatever was drawn and whatever the figure
\* held before.
C6_YLimFixed ==
    Returned("plot_months_side_by_side") => ylim = <<500, 2000>>

\* A call on a figure whose y-axis was still autoscaled, with counts below 500
\* and above 2000.
C6_Witness ==
    /\ Returned("plot_months_side_by_side")
    /\ last.ylim_before = None
    /\ Len(last.years) = 2
    /\ last.years[1][2].values = <<400>>
    /\ last.years[2][2].values = <<2500, 2500>>
    /\ ylim = <<500, 2000>>

\* The last call was a renderer given an empty series: plot_time_hist with an
\* empty series, or plot_months_side_by_side / plot_days with a collection
\* that is empty or holds an empty series.
EmptyInput ==
    \/ last.op = "plot_time_hist" /\ Len(last.value_counts.index) = 0
    \/ /\ last.op \in {"plot_months_side_by_side", "plot_days"}
       /\ \/ last.years = <<>>
          \/ \E k \in DOMAIN last.years : Len(last.years[k][2].values) = 0

\* C7 (as claimed): a renderer called with an empty series raises.
C7_EmptyInputRaises == EmptyInput => last.outcome = "raised"

\* C8 (as claimed): plot_days with fit_trendline, given a series no longer
\* than deg, ends with an error raised to the caller.
C8_ShortSeriesRaises ==
    ( /\ last.op = "plot_days"
      /\ last.opts.fit_trendline
      /\ \E k \in DOMAIN last.years : Len(last.years[k][2].values) <= last.opts.deg )
    => last.outcome = "raised"

\* C9 (as claimed): plot_days draws every one of the K series, the k-th with
\* the k-th colour of the cycle, starting over once the cycle is exhausted;
\* no call fails for lack of a colour.
C9_ColoursCycle ==
    (last.op = "plot_days" /\ ~last.opts.fit_trendline) =>
        /\ last.outcome = "returned"
        /\ Len(Drawn) = Len(last.years)
        /\ \A k \in DOMAIN last.years :
              Drawn[k].color =
                  Some(prop_cycle_colors[((k - 1) % Len(prop_cycle_colors)) + 1])

\* C10 (as claimed): a render call that raises has added nothing to the figure.
C10_AllOrNothing ==
    (last.op \in {"plot_time_hist", "plot_months_side_by_side", "plot_days"}
        /\ last.outcome = "raised")
    => Len(artists) = last.before

====
